---------------------------- MODULE Spec2Model ----------------------------
(***************************************************************************)
(* A model of qulab/_driver.py: the quantity classes (Quantity, QReal,     *)
(* QInteger, QString, QOption, QBool, QVector, QList), BaseDriver with its *)
(* transport pass-throughs, error-queue drain and close, the resource      *)
(* resolver and DriverManager.open.                                        *)
(*                                                                         *)
(* Python values are records [t, n, s, a]: t is the Python type, n the     *)
(* number (reals in tenths, so 2.5 is n = 25), s the text as a sequence of *)
(* one-character strings, a the elements of a list or array (in tenths).   *)
(* A call's outcome is a record [out, val]: out is "ok" or the name of the *)
(* exception raised.                                                       *)
(***************************************************************************)
EXTENDS Integers, Sequences, FiniteSets, TLC

(***************************************************************************)
(* Python values                                                           *)
(***************************************************************************)
None == [t |-> "none", n |-> 0, s |-> <<>>, a |-> <<>>]
PyInt(k) == [t |-> "int", n |-> k, s |-> <<>>, a |-> <<>>]
PyReal(tenths) == [t |-> "real", n |-> tenths, s |-> <<>>, a |-> <<>>]
PyBool(b) == [t |-> "bool", n |-> IF b THEN 1 ELSE 0, s |-> <<>>, a |-> <<>>]
PyStr(chars) == [t |-> "str", n |-> 0, s |-> chars, a |-> <<>>]
PyList(elems) == [t |-> "list", n |-> 0, s |-> <<>>, a |-> elems]
\* numpy.asarray(list): an array of the list's elements
NpArray(elems) == [t |-> "array", n |-> 0, s |-> <<>>, a |-> elems]
\* numpy.asarray(None): a 0-dimensional object array holding None
NpArrayOfNone == [t |-> "array0", n |-> 0, s |-> <<>>, a |-> <<>>]
\* the driver object itself, returned by write(...) and setValue(...)
SelfRef == [t |-> "self", n |-> 0, s |-> <<>>, a |-> <<>>]

Ok(v) == [out |-> "ok", val |-> v]
Raise(exc) == [out |-> exc, val |-> None]

(***************************************************************************)
(* Text: str.strip, str.split, slicing and int() as Python computes them   *)
(***************************************************************************)
DigitChars == <<"0", "1", "2", "3", "4", "5", "6", "7", "8", "9">>

IsDigit(c) == \E i \in 1..10 : DigitChars[i] = c

DigitVal(c) == (CHOOSE i \in 1..10 : DigitChars[i] = c) - 1

WhiteSpace == {" ", "\n"}

\* the characters QString.getValue strips: "\n\"' "
StripChars == {"\n", "\"", "'", " "}

RECURSIVE LStrip(_, _)
LStrip(s, chars) ==
    IF s # <<>> /\ Head(s) \in chars THEN LStrip(Tail(s), chars) ELSE s

RECURSIVE RStrip(_, _)
RStrip(s, chars) ==
    IF s # <<>> /\ s[Len(s)] \in chars
    THEN RStrip(SubSeq(s, 1, Len(s) - 1), chars)
    ELSE s

\* str.strip(chars)
Strip(s, chars) == RStrip(LStrip(s, chars), chars)

\* s[:-1]
DropLast(s) == SubSeq(s, 1, Len(s) - 1)

StartsWith(s, sep) == Len(s) >= Len(sep) /\ SubSeq(s, 1, Len(sep)) = sep

\* str.find(sep) + 1: the position of the first occurrence, 0 when none
FindFirst(s, sep) ==
    LET hits == {i \in 1..Len(s) : StartsWith(SubSeq(s, i, Len(s)), sep)}
    IN  IF hits = {} THEN 0 ELSE CHOOSE i \in hits : \A j \in hits : i <= j

\* str.split(sep), sep non-empty: cut at every occurrence, left to right
RECURSIVE Split(_, _)
Split(s, sep) ==
    LET i == FindFirst(s, sep)
    IN  IF i = 0
        THEN <<s>>
        ELSE <<SubSeq(s, 1, i - 1)>> \o Split(SubSeq(s, i + Len(sep), Len(s)), sep)

RECURSIVE DigitsVal(_, _)
DigitsVal(s, acc) ==
    IF s = <<>> THEN acc ELSE DigitsVal(Tail(s), 10 * acc + DigitVal(Head(s)))

\* int(text): surrounding whitespace, an optional sign, then digits only
IntOfText(chars) ==
    LET body == Strip(chars, WhiteSpace)
        signed == body # <<>> /\ Head(body) \in {"+", "-"}
        digits == IF signed THEN Tail(body) ELSE body
    IN  IF digits = <<>> \/ \E i \in 1..Len(digits) : ~IsDigit(digits[i])
        THEN Raise("ValueError")
        ELSE Ok(PyInt(IF signed /\ Head(body) = "-"
                      THEN 0 - DigitsVal(digits, 0)
                      ELSE DigitsVal(digits, 0)))

\* truncation toward zero of a number held in tenths
Trunc(tenths) == IF tenths >= 0 THEN tenths \div 10 ELSE 0 - ((0 - tenths) \div 10)

\* int(x)
PyIntOf(x) ==
    CASE x.t = "int" -> Ok(x)
      [] x.t = "bool" -> Ok(PyInt(x.n))
      [] x.t = "real" -> Ok(PyInt(Trunc(x.n)))
      [] x.t = "str" -> IntOfText(x.s)
      [] OTHER -> Raise("TypeError")

\* bool(x) of an int
PyBoolOf(x) == PyBool(x.n # 0)


(***************************************************************************)
(* Bounds of the model                                                     *)
(***************************************************************************)
\* the most error entries one drain of the error queue accumulates
MaxErrs == 2

\* the most DriverManager.open calls in one run
MaxOpens == 3

(***************************************************************************)
(* Command templates and the transport                                     *)
(*                                                                         *)
(* A template is [text, slots]: its text ("" for the empty template) and   *)
(* the names of its %(name)s slots.  Formatting it with a dict raises      *)
(* KeyError when a slot has no key.  A formatted command is [text, arg]:   *)
(* the template's text and the value substituted.                          *)
(***************************************************************************)
NoCmd == [text |-> "", slots |-> {}]

Cmd(text, arg) == [text |-> text, arg |-> arg]

\* template % dict(...)
Format(tmpl, keys, arg) ==
    IF tmpl.slots \subseteq keys
    THEN [out |-> "ok", cmd |-> Cmd(tmpl.text, arg)]
    ELSE [out |-> "KeyError", cmd |-> Cmd("", None)]

\* a driver's transport handle is absent (self.ins is None) or present
NoIns == 0

\* a quantity without a driver (self.driver is None)
NoDriver == 0

\* one call made on a transport handle: the method, the command, and
\* whether the handle had already been closed when the call was made
Call(m, cmd, closed) == [m |-> m, cmd |-> cmd, closed |-> closed]


(***************************************************************************)
(* Python dicts keyed by text, as functions                                *)
(***************************************************************************)
EmptyDict == [k \in {} |-> <<>>]

DictSet(d, k, v) == [x \in (DOMAIN d) \cup {k} |-> IF x = k THEN v ELSE d[x]]

\* dict(pairs): a later pair with the same key replaces an earlier one
RECURSIVE DictOf(_, _)
DictOf(pairs, d) ==
    IF pairs = <<>> THEN d
    ELSE DictOf(Tail(pairs), DictSet(d, Head(pairs)[1], Head(pairs)[2]))

\* a plausible slip: the mapping is built in one direction only
RECURSIVE BuildOptsForward(_, _)
BuildOptsForward(options, d) ==
    IF options = <<>> THEN d
    ELSE BuildOptsForward(Tail(options), DictSet(d, Head(options)[1], Head(options)[2]))

\* QOption.__init__: for k, v in options: _opts[k] = v; _opts[v] = k
RECURSIVE BuildOpts(_, _)
BuildOpts(options, d) ==
    IF options = <<>> THEN d
    ELSE LET k == Head(options)[1]
             v == Head(options)[2]
         IN  BuildOpts(Tail(options), DictSet(DictSet(d, k, v), v, k))

(***************************************************************************)
(* Quantity objects                                                        *)
(*                                                                         *)
(* [cls, name, value, get_cmd, set_cmd, options, opts, driver]: cls is the *)
(* Python class, options the ordered (label, code) pairs of a QOption,     *)
(* opts its _opts dict, driver the owning driver or NoDriver.              *)
(***************************************************************************)
Classes == {"Quantity", "QList", "QReal", "QInteger", "QBool", "QString",
            "QOption", "QVector"}

\* Quantity.__init__ and the subclasses' __init__
NewQuantity(cls, name, value, get_cmd, set_cmd, options) ==
    [cls |-> cls, name |-> name, value |-> value, get_cmd |-> get_cmd, set_cmd |-> set_cmd,
     options |-> IF cls = "QOption" THEN options ELSE <<>>,
     opts |-> IF cls = "QOption" THEN BuildOpts(options, EmptyDict) ELSE EmptyDict,
     driver |-> NoDriver]

\* the keyword arguments a caller may add to a get or set
KwSets == {{}, {"extra"}, {"binary"}}

(***************************************************************************)
(* BaseDriver's pass-throughs as the quantities use them (check_errors is  *)
(* False there).  ins is the driver's handle or NoIns, closed whether that *)
(* handle was closed, reply the transport's answer to the call.            *)
(***************************************************************************)
IsWrite(m) == m \in {"write", "write_ascii_values", "write_binary_values"}

\* a plausible slip: a failed transport call is tried once more
PassThroughRetry(ins, closed, m, cmd, reply) ==
    IF ins = NoIns
    THEN [ret |-> Ok(None), io |-> <<>>]
    ELSE [ret |-> IF reply.out = "ok" /\ IsWrite(m) THEN Ok(SelfRef) ELSE reply,
          io |-> IF reply.out = "ok" THEN <<Call(m, cmd, closed)>>
                 ELSE <<Call(m, cmd, closed), Call(m, cmd, closed)>>]

PassThrough(ins, closed, m, cmd, reply) ==
    IF ins = NoIns
    THEN [ret |-> Ok(None), io |-> <<>>]
    ELSE [ret |-> IF reply.out = "ok" /\ IsWrite(m) THEN Ok(SelfRef) ELSE reply,
          io |-> <<Call(m, cmd, closed)>>]

\* res[0] of a query_ascii_values result
FirstOf(res) ==
    CASE res.t = "none" -> Raise("TypeError")
      [] res.t = "list" /\ res.a = <<>> -> Raise("IndexError")
      [] OTHER -> Ok(PyReal(res.a[1]))

\* numpy.asarray(res)
AsArray(res) == IF res.t = "none" THEN NpArrayOfNone ELSE NpArray(res.a)

\* the transport method a quantity's getValue uses
GetMethod(q, kw) ==
    CASE q.cls \in {"QReal", "QInteger", "QBool"} -> "query_ascii_values"
      [] q.cls \in {"QString", "QOption"} -> "query"
      [] q.cls = "QVector" ->
           IF "binary" \in kw THEN "query_binary_values" ELSE "query_ascii_values"
      [] OTHER -> "none"

\* whether getValue goes to the device: the test
\* "self.driver is not None and self.get_cmd is not ''"
Fetches(q) ==
    /\ q.cls \notin {"Quantity", "QList"}
    /\ q.driver # NoDriver
    /\ q.get_cmd.text # ""

\* the formatted request and the driver's query of it
Fetch(q, ins, closed, kw, reply) ==
    LET f == Format(q.get_cmd, {"ch"} \cup kw, None)
    IN  IF f.out # "ok"
        THEN [ret |-> Raise(f.out), io |-> <<>>]
        ELSE PassThrough(ins, closed, GetMethod(q, kw), f.cmd, reply)

\* the value a reply parses to, by class
Parsed(q, res) ==
    CASE q.cls \in {"QReal", "QInteger", "QBool"} -> FirstOf(res)
      [] q.cls \in {"QString", "QOption"} ->
           IF res.t = "none" THEN Raise("AttributeError")
           ELSE Ok(PyStr(Strip(res.s, StripChars)))
      [] OTHER -> Ok(AsArray(res))

\* Quantity.getValue, QReal.getValue, QString.getValue, QVector.getValue:
\* the cache after the call, and the cached value returned
CachedGet(q, ins, closed, kw, reply) ==
    IF Fetches(q)
    THEN LET f == Fetch(q, ins, closed, kw, reply)
             p == Parsed(q, f.ret.val)
         IN  IF f.ret.out # "ok" THEN [q |-> q, ret |-> f.ret, io |-> f.io]
             ELSE IF p.out # "ok" THEN [q |-> q, ret |-> p, io |-> f.io]
             ELSE [q |-> [q EXCEPT !.value = p.val], ret |-> p, io |-> f.io]
    ELSE [q |-> q, ret |-> Ok(q.value), io |-> <<>>]

\* QInteger.getValue: super().getValue(), then int(self.value)
QIntegerGetValue(q, ins, closed, kw, reply) ==
    LET r == CachedGet(q, ins, closed, kw, reply)
    IN  IF r.ret.out # "ok" THEN r ELSE [r EXCEPT !.ret = PyIntOf(r.q.value)]

\* QBool.getValue: bool(super().getValue())
QBoolGetValue(q, ins, closed, kw, reply) ==
    LET r == QIntegerGetValue(q, ins, closed, kw, reply)
    IN  IF r.ret.out # "ok" THEN r ELSE [r EXCEPT !.ret = Ok(PyBoolOf(r.ret.val))]

\* q.getValue(**kw), by the class of q
GetValue(q, ins, closed, kw, reply) ==
    CASE q.cls = "QInteger" -> QIntegerGetValue(q, ins, closed, kw, reply)
      [] q.cls = "QBool" -> QBoolGetValue(q, ins, closed, kw, reply)
      [] OTHER -> CachedGet(q, ins, closed, kw, reply)


\* whether setValue goes to the device: the test
\* "self.driver is not None and self.set_cmd is not ''"
Sends(q) == q.driver # NoDriver /\ q.set_cmd.text # ""

\* values Python cannot hash, so cannot look up in a dict
Unhashable(v) == v.t \in {"list", "array", "array0"}

Labels(options) == {options[i][1] : i \in 1..Len(options)}

\* value in dict(self.options).keys()
IsLabel(options, v) == v.t = "str" /\ v.s \in Labels(options)

\* the formatted command and the driver's write of it
Send(tmpl, keys, arg, ins, closed, reply) ==
    LET f == Format(tmpl, keys, arg)
    IN  IF f.out # "ok"
        THEN [ret |-> Raise(f.out), io |-> <<>>]
        ELSE LET w == PassThrough(ins, closed, "write", f.cmd, reply)
             IN  [ret |-> IF w.ret.out = "ok" THEN Ok(None) ELSE w.ret, io |-> w.io]

\* a plausible slip: the cache is written only after the command was sent
QuantitySetValueLate(q, ins, closed, v, kw, reply) ==
    LET q1 == [q EXCEPT !.value = v]
    IN  IF Sends(q)
        THEN LET w == Send(q.set_cmd, {"value", "unit", "ch"} \cup kw, v,
                           ins, closed, reply)
             IN  [q |-> IF w.ret.out = "ok" THEN q1 ELSE q, ret |-> w.ret, io |-> w.io]
        ELSE [q |-> q1, ret |-> Ok(None), io |-> <<>>]

\* Quantity.setValue: the cache is overwritten first
QuantitySetValue(q, ins, closed, v, kw, reply) ==
    LET q1 == [q EXCEPT !.value = v]
    IN  IF Sends(q)
        THEN LET w == Send(q.set_cmd, {"value", "unit", "ch"} \cup kw, v,
                           ins, closed, reply)
             IN  [q |-> q1, ret |-> w.ret, io |-> w.io]
        ELSE [q |-> q1, ret |-> Ok(None), io |-> <<>>]

\* a plausible slip: options[value] looked up without the membership test
QOptionSetValueStrict(q, ins, closed, v, kw, reply) ==
    LET q1 == [q EXCEPT !.value = v]
    IN  IF ~Sends(q) THEN [q |-> q1, ret |-> Ok(None), io |-> <<>>]
        ELSE IF Unhashable(v) THEN [q |-> q1, ret |-> Raise("TypeError"), io |-> <<>>]
        ELSE IF ~IsLabel(q.options, v) THEN [q |-> q1, ret |-> Raise("KeyError"), io |-> <<>>]
        ELSE LET w == Send(q.set_cmd, {"option", "ch"} \cup kw,
                           PyStr(DictOf(q.options, EmptyDict)[v.s]),
                           ins, closed, reply)
             IN  [q |-> q1, ret |-> w.ret, io |-> w.io]

\* QOption.setValue: an unregistered label returns before any command
QOptionSetValue(q, ins, closed, v, kw, reply) ==
    LET q1 == [q EXCEPT !.value = v]
    IN  IF ~Sends(q) THEN [q |-> q1, ret |-> Ok(None), io |-> <<>>]
        ELSE IF Unhashable(v) THEN [q |-> q1, ret |-> Raise("TypeError"), io |-> <<>>]
        ELSE IF ~IsLabel(q.options, v) THEN [q |-> q1, ret |-> Ok(None), io |-> <<>>]
        ELSE LET w == Send(q.set_cmd, {"option", "ch"} \cup kw,
                           PyStr(DictOf(q.options, EmptyDict)[v.s]),
                           ins, closed, reply)
             IN  [q |-> q1, ret |-> w.ret, io |-> w.io]

\* q.setValue(value, **kw), by the class of q
SetValue(q, ins, closed, v, kw, reply) ==
    IF q.cls = "QOption"
    THEN QOptionSetValue(q, ins, closed, v, kw, reply)
    ELSE QuantitySetValue(q, ins, closed, v, kw, reply)

\* the position of the first pair whose label equals value, counted from 0
IndexOf(options, v) ==
    LET hits == {i \in 1..Len(options) : v.t = "str" /\ options[i][1] = v.s}
    IN  IF hits = {} THEN None
        ELSE PyInt((CHOOSE i \in hits : \A j \in hits : i <= j) - 1)

\* QOption.getIndex
GetIndex(q, ins, closed, kw, reply) ==
    LET r == CachedGet(q, ins, closed, kw, reply)
    IN  IF r.ret.out # "ok" THEN r
        ELSE IF r.ret.val = None THEN [r EXCEPT !.ret = Ok(None)]
        ELSE [r EXCEPT !.ret = Ok(IndexOf(q.options, r.ret.val))]

\* QOption.getCmdOption: dict(self.options)[value]
GetCmdOption(q, ins, closed, kw, reply) ==
    LET r == CachedGet(q, ins, closed, kw, reply)
        v == r.ret.val
    IN  IF r.ret.out # "ok" THEN r
        ELSE IF v = None THEN [r EXCEPT !.ret = Ok(None)]
        ELSE IF Unhashable(v) THEN [r EXCEPT !.ret = Raise("TypeError")]
        ELSE IF ~IsLabel(q.options, v) THEN [r EXCEPT !.ret = Raise("KeyError")]
        ELSE [r EXCEPT !.ret = Ok(PyStr(DictOf(q.options, EmptyDict)[v.s]))]


(***************************************************************************)
(* State                                                                   *)
(***************************************************************************)
VARIABLES
    Q,       \* the quantity objects: object id -> quantity
    drv,     \* the driver objects: driver id -> driver (built: the object exists)
    hnd,     \* the transport handles opened so far, handle i at position i:
             \* [closed, timeout]
    last,    \* the last completed call: what was called, its result, its I/O
             \* (NoCall at the start and while a call is still running)
    pc,      \* "idle", or "errors" while a drain of the error queue runs
    cur,     \* the drain of the error queue that runs or has just ended: the
             \* call it belongs to and what it has read
    mgr      \* the DriverManager: its cache and what its opens have done

vars == <<Q, drv, hnd, last, pc, cur, mgr>>

\* the driver ids (object identities, 1, 2, ...) and the unconstructed driver
Drivers == 1..MaxOpens

NoDrv == [ins |-> NoIns, timeout |-> 0, addr |-> <<>>, model |-> <<>>,
          quantities |-> EmptyDict, error_command |-> "", built |-> FALSE]

\* the id of the class-level template of a quantity (owner 0, the class),
\* and of a driver's copy
TemplateId(name) == <<0, name>>

\* a plausible slip: the template itself is stored, without deepcopy
CopyIdOfTemplate(d, name) == <<0, name>>

CopyId(d, name) == <<d, name>>

\* BaseDriver._add_quant: a deep copy of the template, owned by the driver
AddQuant(heap, d, tq) ==
    DictSet(heap, CopyId(d, heap[tq].name), [heap[tq] EXCEPT !.driver = d])

RECURSIVE AddQuants(_, _, _)
AddQuants(heap, d, quants) ==
    IF quants = <<>> THEN heap
    ELSE AddQuants(AddQuant(heap, d, Head(quants)), d, Tail(quants))

\* BaseDriver.__init__: the driver object; quants is the class's list of
\* template ids, error_command the class attribute
NewDriver(heap, d, ins, addr, model, timeout, error_command, quants) ==
    [ins |-> ins, timeout |-> timeout, addr |-> addr, model |-> model,
     quantities |-> [n \in {heap[quants[i]].name : i \in 1..Len(quants)} |->
                        CopyId(d, n)],
     error_command |-> error_command, built |-> TRUE]

\* BaseDriver.__init__: self.ins.timeout = timeout * 1000
NewHandle(timeout) == [closed |-> FALSE, timeout |-> timeout * 1000]

\* the default of BaseDriver.__init__'s timeout parameter
DefaultTimeout == 3

\* BaseDriver.error_command
ErrorCommand == "SYST:ERR?"

\* the record of a completed call
Done(op, tgt, arg, ret, io, prevSet) ==
    [op |-> op, tgt |-> tgt, arg |-> arg, ret |-> ret, io |-> io, prevSet |-> prevSet]

\* no setValue of the same quantity came immediately before
NotSet == [t |-> "notset", n |-> 0, s |-> <<>>, a |-> <<>>]

NoCall == Done("none", <<0, "">>, None, Ok(None), <<>>, NotSet)

\* the names of the instruments open() is called with
InstrNames == {"scope1", "dig1", "dig2", "near1", "awg1"}

\* DriverManager.__init__: nothing cached; per name, what the opens of that
\* name have done so far and the driver the first successful open returned
NoManager ==
    [instr |-> [n \in InstrNames |-> 0],
     first |-> [n \in InstrNames |-> 0],
     did |-> [n \in InstrNames |-> [opens |-> 0, idns |-> 0, builds |-> 0, hooks |-> 0]],
     calls |-> 0,
     torn |-> FALSE]

NoDrain == [op |-> "none", d |-> 0, tgt |-> <<0, "">>, arg |-> None, ret |-> Ok(None),
            io |-> <<>>, e |-> <<>>, sent |-> <<>>]


(***************************************************************************)
(* The transport's answers (pyvisa, outside the repository): a reply of    *)
(* the method's type or a failure; a closed handle only fails.             *)
(***************************************************************************)
ON == <<"O", "N">>

OFF == <<"O", "F", "F">>

QueryTexts == {<<"O", "N", "\n">>, <<"\"", "X", "\"">>}

AsciiValues == {<<>>, <<25, 0>>}

RepliesFor(m, closed) ==
    IF closed THEN {Raise("InvalidSession")}
    ELSE {Raise("VisaIOError")} \cup
         CASE m = "query" -> {Ok(PyStr(t)) : t \in QueryTexts}
           [] m \in {"query_ascii_values", "query_binary_values"} ->
                {Ok(PyList(l)) : l \in AsciiValues}
           [] OTHER -> {Ok(None)}

InsOf(q) == IF q.driver = NoDriver THEN NoIns ELSE drv[q.driver].ins

IsClosed(ins) == ins # NoIns /\ hnd[ins].closed

\* the value of the setValue that came immediately before on this quantity
PrevSet(qid) ==
    IF last.op \in {"setValue", "d.setValue"} /\ last.tgt = qid
    THEN last.arg ELSE NotSet

(***************************************************************************)
(* Calls on a quantity object that no driver owns: q.getValue, q.setValue,  *)
(* q.getIndex, q.getCmdOption.  A driver's quantities are called through   *)
(* the driver, whose performGetValue and performSetValue delegate to the   *)
(* same methods.                                                           *)
(***************************************************************************)
SetValues == {None, PyInt(2), PyReal(25), PyBool(TRUE), PyStr(ON), PyStr(<<"X">>),
              PyList(<<10>>)}

QGetValue(qid, kw) ==
    /\ pc = "idle"
    /\ Q[qid].driver = NoDriver
    /\ LET q == Q[qid]
           ins == InsOf(q)
       IN  \E reply \in RepliesFor(GetMethod(q, kw), IsClosed(ins)) :
             LET r == GetValue(q, ins, IsClosed(ins), kw, reply)
             IN  /\ Q' = [Q EXCEPT ![qid] = r.q]
                 /\ last' = Done("getValue", qid, None, r.ret, r.io, PrevSet(qid))
    /\ UNCHANGED <<drv, hnd, pc, cur, mgr>>

QSetValue(qid, v, kw) ==
    /\ pc = "idle"
    /\ Q[qid].driver = NoDriver
    /\ LET q == Q[qid]
           ins == InsOf(q)
       IN  \E reply \in RepliesFor("write", IsClosed(ins)) :
             LET r == SetValue(q, ins, IsClosed(ins), v, kw, reply)
             IN  /\ Q' = [Q EXCEPT ![qid] = r.q]
                 /\ last' = Done("setValue", qid, v, r.ret, r.io, NotSet)
    /\ UNCHANGED <<drv, hnd, pc, cur, mgr>>

QGetIndex(qid, kw) ==
    /\ pc = "idle"
    /\ Q[qid].driver = NoDriver
    /\ Q[qid].cls = "QOption"
    /\ LET q == Q[qid]
           ins == InsOf(q)
       IN  \E reply \in RepliesFor("query", IsClosed(ins)) :
             LET r == GetIndex(q, ins, IsClosed(ins), kw, reply)
             IN  /\ Q' = [Q EXCEPT ![qid] = r.q]
                 /\ last' = Done("getIndex", qid, None, r.ret, r.io, PrevSet(qid))
    /\ UNCHANGED <<drv, hnd, pc, cur, mgr>>

QGetCmdOption(qid, kw) ==
    /\ pc = "idle"
    /\ Q[qid].driver = NoDriver
    /\ Q[qid].cls = "QOption"
    /\ LET q == Q[qid]
           ins == InsOf(q)
       IN  \E reply \in RepliesFor("query", IsClosed(ins)) :
             LET r == GetCmdOption(q, ins, IsClosed(ins), kw, reply)
             IN  /\ Q' = [Q EXCEPT ![qid] = r.q]
                 /\ last' = Done("getCmdOption", qid, None, r.ret, r.io, PrevSet(qid))
    /\ UNCHANGED <<drv, hnd, pc, cur, mgr>>

(***************************************************************************)
(* Calls on a driver by quantity name: BaseDriver.getValue, setValue,      *)
(* getIndex, getCmdOption (performGetValue and performSetValue delegate to *)
(* the quantity)                                                           *)
(***************************************************************************)
Names == {"A", "B"}

Has(d, name) == name \in DOMAIN drv[d].quantities

\* a plausible slip: self.quantities[name] without the membership test
UnknownNameRaises(op) == Raise("KeyError")

\* what a call with a name that is no key of self.quantities returns:
\* setValue returns self, the lookups fall through to None
UnknownName(op) == IF op = "d.setValue" THEN Ok(SelfRef) ELSE Ok(None)

DriverGetValue(d, name, kw) ==
    /\ pc = "idle"
    /\ drv[d].built
    /\ IF Has(d, name)
       THEN LET qid == drv[d].quantities[name]
                q == Q[qid]
            IN  \E reply \in RepliesFor(GetMethod(q, kw), IsClosed(drv[d].ins)) :
                  LET r == GetValue(q, drv[d].ins, IsClosed(drv[d].ins), kw, reply)
                  IN  /\ Q' = [Q EXCEPT ![qid] = r.q]
                      /\ last' = Done("d.getValue", qid, None, r.ret, r.io,
                                      PrevSet(qid))
       ELSE /\ Q' = Q
            /\ last' = Done("d.getValue", CopyId(d, name), None,
                            UnknownName("d.getValue"), <<>>, NotSet)
    /\ UNCHANGED <<drv, hnd, pc, cur, mgr>>

DriverSetValue(d, name, v, kw) ==
    /\ pc = "idle"
    /\ drv[d].built
    /\ IF Has(d, name)
       THEN LET qid == drv[d].quantities[name]
                q == Q[qid]
            IN  \E reply \in RepliesFor("write", IsClosed(drv[d].ins)) :
                  LET r == SetValue(q, drv[d].ins, IsClosed(drv[d].ins), v, kw, reply)
                  IN  /\ Q' = [Q EXCEPT ![qid] = r.q]
                      /\ last' = Done("d.setValue", qid, v,
                                      IF r.ret.out = "ok" THEN Ok(SelfRef) ELSE r.ret,
                                      r.io, NotSet)
       ELSE /\ Q' = Q
            /\ last' = Done("d.setValue", CopyId(d, name), v,
                            UnknownName("d.setValue"), <<>>, NotSet)
    /\ UNCHANGED <<drv, hnd, pc, cur, mgr>>

\* getIndex and getCmdOption exist on QOption only
DriverGetIndex(d, name, kw) ==
    /\ pc = "idle"
    /\ drv[d].built
    /\ IF Has(d, name)
       THEN LET qid == drv[d].quantities[name]
                q == Q[qid]
            IN  IF q.cls = "QOption"
                THEN \E reply \in RepliesFor("query", IsClosed(drv[d].ins)) :
                       LET r == GetIndex(q, drv[d].ins, IsClosed(drv[d].ins), kw, reply)
                       IN  /\ Q' = [Q EXCEPT ![qid] = r.q]
                           /\ last' = Done("d.getIndex", qid, None, r.ret, r.io,
                                           PrevSet(qid))
                ELSE /\ Q' = Q
                     /\ last' = Done("d.getIndex", qid, None,
                                     Raise("AttributeError"), <<>>, PrevSet(qid))
       ELSE /\ Q' = Q
            /\ last' = Done("d.getIndex", CopyId(d, name), None,
                            UnknownName("d.getIndex"), <<>>, NotSet)
    /\ UNCHANGED <<drv, hnd, pc, cur, mgr>>

DriverGetCmdOption(d, name, kw) ==
    /\ pc = "idle"
    /\ drv[d].built
    /\ IF Has(d, name)
       THEN LET qid == drv[d].quantities[name]
                q == Q[qid]
            IN  IF q.cls = "QOption"
                THEN \E reply \in RepliesFor("query", IsClosed(drv[d].ins)) :
                       LET r == GetCmdOption(q, drv[d].ins, IsClosed(drv[d].ins), kw,
                                             reply)
                       IN  /\ Q' = [Q EXCEPT ![qid] = r.q]
                           /\ last' = Done("d.getCmdOption", qid, None, r.ret, r.io,
                                           PrevSet(qid))
                ELSE /\ Q' = Q
                     /\ last' = Done("d.getCmdOption", qid, None,
                                     Raise("AttributeError"), <<>>, PrevSet(qid))
       ELSE /\ Q' = Q
            /\ last' = Done("d.getCmdOption", CopyId(d, name), None,
                            UnknownName("d.getCmdOption"), <<>>, NotSet)
    /\ UNCHANGED <<drv, hnd, pc, cur, mgr>>

(***************************************************************************)
(* Spec: one quantity "A" of any class, alone or copied into a driver      *)
(* whose transport is absent or connected.  Once the driver is built the   *)
(* heap holds the driver's copy; the class template is not called here.    *)
(***************************************************************************)
GetTemplate(extra) ==
    [text |-> "GET", slots |-> IF extra THEN {"ch", "extra"} ELSE {"ch"}]

SetTemplate(cls, extra) ==
    [text |-> "SET",
     slots |-> {IF cls = "QOption" THEN "option" ELSE "value", "ch"}
               \cup (IF extra THEN {"extra"} ELSE {})]

\* the (get_cmd, set_cmd) pairs a quantity is declared with
TemplatePairs(cls) ==
    {<<NoCmd, NoCmd>>, <<GetTemplate(FALSE), NoCmd>>, <<NoCmd, SetTemplate(cls, FALSE)>>,
     <<GetTemplate(FALSE), SetTemplate(cls, FALSE)>>,
     <<GetTemplate(TRUE), SetTemplate(cls, TRUE)>>}

OnOff == << <<ON, <<"1">>>>, <<OFF, <<"0">>>> >>

Init ==
    \E cls \in Classes, attach \in {"alone", "absent", "connected"} :
      \E tp \in TemplatePairs(cls) :
        LET tq == NewQuantity(cls, "A", None, tp[1], tp[2], OnOff)
            heap == DictSet(EmptyDict, TemplateId("A"), tq)
            copied == AddQuants(heap, 1, <<TemplateId("A")>>)
        IN  /\ Q = IF attach = "alone" THEN heap
                   ELSE [id \in {CopyId(1, "A")} |-> copied[id]]
            /\ drv = [d \in Drivers |->
                        IF attach = "alone" \/ d # 1 THEN NoDrv
                        ELSE NewDriver(heap, d,
                                       IF attach = "connected" THEN 1 ELSE NoIns,
                                       <<"addr">>, <<"model">>, DefaultTimeout, ErrorCommand,
                                       <<TemplateId("A")>>)]
            /\ hnd = <<NewHandle(DefaultTimeout)>>
            /\ last = NoCall
            /\ pc = "idle"
            /\ cur = NoDrain
            /\ mgr = NoManager

Next ==
    \/ \E qid \in DOMAIN Q, kw \in KwSets : QGetValue(qid, kw)
    \/ \E qid \in DOMAIN Q, v \in SetValues, kw \in KwSets : QSetValue(qid, v, kw)
    \/ \E qid \in DOMAIN Q, kw \in KwSets : QGetIndex(qid, kw)
    \/ \E qid \in DOMAIN Q, kw \in KwSets : QGetCmdOption(qid, kw)
    \/ \E d \in Drivers, name \in Names, kw \in KwSets : DriverGetValue(d, name, kw)
    \/ \E d \in Drivers, name \in Names, v \in SetValues, kw \in KwSets :
         DriverSetValue(d, name, v, kw)
    \/ \E d \in Drivers, name \in Names, kw \in KwSets : DriverGetIndex(d, name, kw)
    \/ \E d \in Drivers, name \in Names, kw \in KwSets : DriverGetCmdOption(d, name, kw)

Spec == Init /\ [][Next]_vars


(***************************************************************************)
(* Claims about the quantities and the dispatch by name (under Spec)       *)
(***************************************************************************)
GetOps == {"getValue", "d.getValue"}

SetOps == {"setValue", "d.setValue"}

ByName == {"d.getValue", "d.setValue", "d.getIndex", "d.getCmdOption"}

\* the last call named a quantity the driver does not have
UnknownNameCall == last.op \in ByName /\ last.tgt \notin DOMAIN Q

\* C1: on a quantity of any class with empty get and set templates and no
\* connected transport, a getValue that immediately follows setValue(x)
\* returns exactly x and makes no transport call.
C1_SetThenGetReturnsX ==
    (/\ last.op \in GetOps
     /\ last.prevSet # NotSet
     /\ last.tgt \in DOMAIN Q
     /\ Q[last.tgt].get_cmd = NoCmd
     /\ Q[last.tgt].set_cmd = NoCmd
     /\ InsOf(Q[last.tgt]) = NoIns)
    => (last.ret = Ok(last.prevSet) /\ last.io = <<>>)

\* C6: a call of getValue, getIndex, getCmdOption or setValue with a name
\* that is no key of the driver's quantities returns None (setValue returns
\* normally, the driver itself), raises nothing, makes no transport call and
\* changes no quantity, no cached value and no driver's set of names.
C6_UnknownNameIsAbsent ==
    [][(last'.op \in ByName /\ last'.tgt \notin DOMAIN Q)
       => (/\ last'.ret = (IF last'.op = "d.setValue" THEN Ok(SelfRef) ELSE Ok(None))
           /\ last'.io = <<>>
           /\ Q' = Q
           /\ drv' = drv
           /\ hnd' = hnd)]_vars

\* a setValue with an unknown name and a value, while the driver's own
\* quantity holds a cached value that the call could have disturbed
C6_Witness ==
    /\ last.op = "d.setValue"
    /\ UnknownNameCall
    /\ last.arg = PyInt(2)
    /\ \E qid \in DOMAIN Q : Q[qid].value = PyStr(ON)

\* C7 as stated: on a QOption owned by a driver, with a non-empty set
\* template, setValue(v) with any v that is no registered label sends no
\* command, raises nothing and leaves the cached value equal to v.
C7_AnyUnregisteredValue ==
    (/\ last.op \in SetOps
     /\ last.tgt \in DOMAIN Q
     /\ Q[last.tgt].cls = "QOption"
     /\ Sends(Q[last.tgt])
     /\ ~IsLabel(Q[last.tgt].options, last.arg))
    => (/\ last.io = <<>>
        /\ last.ret.out = "ok"
        /\ Q[last.tgt].value = last.arg)

\* C7, amended: on a QOption owned by a driver, with a non-empty set
\* template, setValue(v) with v a hashable value (None, a number, a text)
\* that is no registered label sends no command, raises nothing and leaves
\* the cached value equal to v.
C7_UnregisteredLabel ==
    (/\ last.op \in SetOps
     /\ last.tgt \in DOMAIN Q
     /\ Q[last.tgt].cls = "QOption"
     /\ Sends(Q[last.tgt])
     /\ ~Unhashable(last.arg)
     /\ ~IsLabel(Q[last.tgt].options, last.arg))
    => (/\ last.io = <<>>
        /\ last.ret.out = "ok"
        /\ Q[last.tgt].value = last.arg)

\* a connected driver's QOption with a set template was set to "X", which
\* is no label of its options
C7_Witness ==
    /\ last.op = "d.setValue"
    /\ last.tgt \in DOMAIN Q
    /\ Q[last.tgt].cls = "QOption"
    /\ Sends(Q[last.tgt])
    /\ InsOf(Q[last.tgt]) # NoIns
    /\ Q[last.tgt].options # <<>>
    /\ last.arg = PyStr(<<"X">>)


\* the setValue that has just been made was on a quantity that is no QOption
NonOptionSet ==
    /\ last.op \in SetOps
    /\ last.tgt \in DOMAIN Q
    /\ Q[last.tgt].cls # "QOption"

\* the transport calls the last call made that are writes
WritesMade == {i \in 1..Len(last.io) : last.io[i].m = "write"}

\* C16 as stated: setValue(v) on a quantity that is no QOption leaves the
\* cache equal to v in every case, and sends exactly one write when the set
\* template is non-empty and the transport is connected, zero otherwise.
C16_OneWriteWhenTemplateAndTransport ==
    NonOptionSet =>
      /\ Q[last.tgt].value = last.arg
      /\ Cardinality(WritesMade) =
           (IF Q[last.tgt].set_cmd.text # "" /\ InsOf(Q[last.tgt]) # NoIns THEN 1 ELSE 0)

\* C16, amended: setValue(v) on a quantity that is no QOption leaves the
\* cache equal to v in every case, and sends exactly one write when the set
\* template is non-empty, the transport is connected and the template
\* formats; it sends none otherwise, in particular none when formatting
\* raises KeyError.
C16_OneWriteWhenFormatted ==
    NonOptionSet =>
      /\ Q[last.tgt].value = last.arg
      /\ Len(last.io) = Cardinality(WritesMade)
      /\ Cardinality(WritesMade) =
           (IF /\ Q[last.tgt].set_cmd.text # ""
               /\ InsOf(Q[last.tgt]) # NoIns
               /\ last.ret.out # "KeyError"
            THEN 1 ELSE 0)

\* a QReal of a connected driver was set to 2.5 and the write failed in the
\* transport: one write, the cache holds 2.5
C16_Witness ==
    /\ NonOptionSet
    /\ Q[last.tgt].cls = "QReal"
    /\ last.arg = PyReal(25)
    /\ last.ret = Raise("VisaIOError")
    /\ Cardinality(WritesMade) = 1
    /\ Q[last.tgt].value = PyReal(25)

\* a getValue that has just been made on quantity qid, a quantity of a class
\* that fetches, with a get template whose only slot is the channel, owned
\* by a driver without transport
AbsentTransportGet(qid) ==
    /\ last'.op \in GetOps
    /\ last'.tgt = qid
    /\ Q[qid].cls \in {"QReal", "QInteger", "QBool", "QString", "QOption", "QVector"}
    /\ Q[qid].get_cmd.text # ""
    /\ Q[qid].get_cmd.slots \subseteq {"ch"}
    /\ Q[qid].driver # NoDriver
    /\ InsOf(Q[qid]) = NoIns

\* C12: getValue on a Real, Integer, Bool, String, Option or Vector quantity
\* with a get template, owned by a driver whose transport is absent, returns
\* the cached value, leaves the cache unchanged, makes no transport call and
\* raises nothing.
C12_AbsentTransportReturnsCache ==
    [][\A qid \in DOMAIN Q :
         AbsentTransportGet(qid)
           => (/\ last'.ret = Ok(Q[qid].value)
               /\ last'.io = <<>>
               /\ Q' = Q)]_vars

\* the call op (on the quantity or by name on its driver) has just been made
\* on a QOption whose get template, if any, has the channel as its only
\* slot, and the transport did not fail
OptionCall(ops) ==
    /\ last.op \in ops
    /\ last.tgt \in DOMAIN Q
    /\ Q[last.tgt].cls = "QOption"
    /\ Q[last.tgt].get_cmd.slots \subseteq {"ch"}
    /\ last.ret.out \notin {"VisaIOError", "InvalidSession"}

\* C17: getIndex() on a QOption returns the position in the option list of
\* the label equal to the current value (refreshed from the device when a
\* get template and a transport exist, else the cached value), None when
\* the value is unset or no label, and never raises.
C17_GetIndexOfCurrentValue ==
    OptionCall({"getIndex", "d.getIndex"})
      => last.ret = Ok(IndexOf(Q[last.tgt].options, Q[last.tgt].value))

\* C18: getCmdOption() on a QOption returns the device code paired with the
\* current value, for every current value setValue and getValue can leave
\* in the cache, a value stored by setValue with an unregistered label and
\* a value refreshed from a device reply included; here for a quantity that
\* either has no get template or whose driver has a transport.
C18_GetCmdOptionOfCurrentValue ==
    (/\ OptionCall({"getCmdOption", "d.getCmdOption"})
     /\ ~(Fetches(Q[last.tgt]) /\ InsOf(Q[last.tgt]) = NoIns))
      => /\ last.ret.out = "ok"
         /\ IsLabel(Q[last.tgt].options, Q[last.tgt].value)
              => last.ret.val =
                   PyStr(DictOf(Q[last.tgt].options, EmptyDict)[Q[last.tgt].value.s])

(***************************************************************************)
(* The device's error queue as the transport delivers it.  An entry is     *)
(* code,"message"; the device may write a non-negative code with a plus    *)
(* sign, and the reply arrives with its line terminator unless the         *)
(* transport is configured to cut it (pyvisa's read_termination).          *)
(***************************************************************************)
RECURSIVE DigitsOf(_)
DigitsOf(n) ==
    IF n < 10 THEN <<DigitChars[n + 1]>>
    ELSE DigitsOf(n \div 10) \o <<DigitChars[(n % 10) + 1]>>

IntText(n, plus) ==
    IF n < 0 THEN <<"-">> \o DigitsOf(0 - n)
    ELSE (IF plus THEN <<"+">> ELSE <<>>) \o DigitsOf(n)

ErrReplyText(code, msg, plus, terminated) ==
    IntText(code, plus) \o <<",", "\"">> \o msg \o <<"\"">>
        \o (IF terminated THEN <<"\n">> ELSE <<>>)

ErrCodes == {0 - 1, 12}

ErrMsgs == {<<"a">>, <<"a", ",", "b">>}

\* a reply that is no code,"message" entry
MalformedReply == <<"0">>

\* the error list errors() returns, as a Python list of (code, message)
ErrList(e) == [t |-> "errlist", n |-> 0, s |-> <<>>, a |-> e]

(***************************************************************************)
(* BaseDriver.errors: one pass of the loop reads one reply                 *)
(***************************************************************************)
\* a plausible slip: the test of the disabled error command left out
ErrorsDisabledNever(d) == FALSE

\* if self.error_command == '': return e
ErrorsDisabled(d) == drv[d].error_command = ""

\* _ = s[:-1].split(',"'); code = int(_[0]); msg = _[1]
ParseErr(s) ==
    LET parts == Split(DropLast(s), <<",", "\"">>)
        code == IntOfText(parts[1])
    IN  IF code.out # "ok" THEN [out |-> code.out, code |-> 0, msg |-> <<>>]
        ELSE IF Len(parts) < 2 THEN [out |-> "IndexError", code |-> 0, msg |-> <<>>]
        ELSE [out |-> "ok", code |-> code.val.n, msg |-> parts[2]]

DriverId(d) == <<d, "">>

\* the call that ran the drain returns: errors() its list, a pass-through
\* with check_errors (kept as the call's argument) the result of its own
\* transport call
Finish(ret, io) ==
    last' = Done(cur.op, DriverId(cur.d), cur.arg, ret, io, NotSet)

\* d.errors()
Errors(d) ==
    /\ pc = "idle"
    /\ drv[d].built
    /\ IF ErrorsDisabled(d)
       THEN /\ last' = Done("errors", DriverId(d), None, Ok(ErrList(<<>>)), <<>>, NotSet)
            /\ cur' = NoDrain
            /\ UNCHANGED pc
       ELSE /\ pc' = "errors"
            /\ cur' = [op |-> "errors", d |-> d, tgt |-> DriverId(d), arg |-> None,
                       ret |-> Ok(None), io |-> <<>>, e |-> <<>>, sent |-> <<>>]
            /\ last' = NoCall
    /\ UNCHANGED <<Q, drv, hnd, mgr>>

\* the drain ends with the exception exc
DrainRaises(exc, io) ==
    /\ Finish(Raise(exc), io)
    /\ pc' = "idle"
    /\ cur' = [cur EXCEPT !.io = io]

\* a plausible slip: the zero entry does not end the loop
DrainParsedPastZero(p, entry, io) ==
    IF p.out # "ok" THEN DrainRaises(p.out, io)
    ELSE /\ cur' = [cur EXCEPT !.io = io,
                               !.e = Append(@, <<p.code, p.msg>>),
                               !.sent = Append(@, entry)]
         /\ UNCHANGED <<pc, last>>

\* code = int(_[0]); if code == 0: break; e.append((code, msg)), with p the
\* parsed reply
DrainParsed(p, entry, io) ==
    IF p.out # "ok" THEN DrainRaises(p.out, io)
    ELSE IF p.code = 0
    THEN /\ Finish(IF cur.op = "errors" THEN Ok(ErrList(cur.e)) ELSE cur.ret, io)
         /\ pc' = "idle"
         /\ cur' = [cur EXCEPT !.io = io]
    ELSE /\ cur' = [cur EXCEPT !.io = io,
                               !.e = Append(@, <<p.code, p.msg>>),
                               !.sent = Append(@, entry)]
         /\ UNCHANGED <<pc, last>>

\* s = self.ins.query(self.error_command) answered with text, then parsed
DrainReads(text, entry, io) == DrainParsed(ParseErr(text), entry, io)

\* one pass of "while True" in errors()
ErrorsStep ==
    /\ pc = "errors"
    /\ LET ins == drv[cur.d].ins
           io == Append(cur.io, Call("query", Cmd(drv[cur.d].error_command, None),
                                     IsClosed(ins)))
       IN  IF ins = NoIns THEN DrainRaises("AttributeError", cur.io)
           ELSE IF IsClosed(ins) THEN DrainRaises("InvalidSession", io)
           ELSE \/ DrainRaises("VisaIOError", io)
                \/ DrainReads(MalformedReply, <<0, <<>>>>, io)
                \/ \E msg \in ErrMsgs, plus \in BOOLEAN, terminated \in BOOLEAN :
                     DrainReads(ErrReplyText(0, msg, plus, terminated), <<0, msg>>, io)
                \/ /\ Len(cur.e) < MaxErrs
                   /\ \E code \in ErrCodes, msg \in ErrMsgs, plus \in BOOLEAN,
                         terminated \in BOOLEAN :
                        DrainReads(ErrReplyText(code, msg, plus, terminated),
                                   <<code, msg>>, io)
    /\ UNCHANGED <<Q, drv, hnd, mgr>>


(***************************************************************************)
(* BaseDriver's pass-throughs called on the driver: query, write and the   *)
(* ascii and binary variants, each with its check_errors flag              *)
(***************************************************************************)
Methods == {"query", "query_ascii_values", "query_binary_values",
            "write", "write_ascii_values", "write_binary_values"}

Primitive(d, m, check) ==
    /\ pc = "idle"
    /\ drv[d].built
    /\ LET ins == drv[d].ins
       IN  \E reply \in RepliesFor(m, IsClosed(ins)) :
             LET pt == PassThrough(ins, IsClosed(ins), m, Cmd("MSG", None), reply)
             IN  IF ins # NoIns /\ pt.ret.out = "ok" /\ check /\ ~ErrorsDisabled(d)
                 THEN /\ pc' = "errors"
                      /\ cur' = [op |-> m, d |-> d, tgt |-> DriverId(d),
                                 arg |-> PyBool(check), ret |-> pt.ret,
                                 io |-> pt.io, e |-> <<>>, sent |-> <<>>]
                      /\ last' = NoCall
                 ELSE /\ last' = Done(m, DriverId(d), PyBool(check), pt.ret, pt.io, NotSet)
                      /\ cur' = NoDrain
                      /\ UNCHANGED pc
    /\ UNCHANGED <<Q, drv, hnd, mgr>>

(***************************************************************************)
(* BaseDriver.close and BaseDriver.__del__                                 *)
(***************************************************************************)
\* self.performClose(); if self.ins is not None: self.ins.close()
CloseCalls(ins) ==
    IF ins = NoIns THEN <<>> ELSE <<Call("close", Cmd("", None), IsClosed(ins))>>

Closed(ins) ==
    IF ins = NoIns THEN hnd ELSE [hnd EXCEPT ![ins].closed = TRUE]

Close(d) ==
    /\ pc = "idle"
    /\ drv[d].built
    /\ hnd' = Closed(drv[d].ins)
    /\ last' = Done("close", DriverId(d), None, Ok(None), CloseCalls(drv[d].ins), NotSet)
    /\ cur' = NoDrain
    /\ UNCHANGED <<Q, drv, pc, mgr>>

\* __del__ calls close(); the object is gone afterwards
Del(d) ==
    /\ pc = "idle"
    /\ drv[d].built
    /\ hnd' = Closed(drv[d].ins)
    /\ drv' = [drv EXCEPT ![d].built = FALSE]
    /\ last' = Done("__del__", DriverId(d), None, Ok(None), CloseCalls(drv[d].ins),
                    NotSet)
    /\ cur' = NoDrain
    /\ UNCHANGED <<Q, pc, mgr>>

(***************************************************************************)
(* SpecIO: a BaseDriver without quantities, its transport absent or        *)
(* connected, its error command set or disabled                            *)
(***************************************************************************)
InitIO ==
    \E ins \in {NoIns, 1}, ec \in {"", ErrorCommand} :
      /\ Q = EmptyDict
      /\ drv = [d \in Drivers |->
                  IF d # 1 THEN NoDrv
                  ELSE NewDriver(EmptyDict, d, ins, <<"addr">>, <<"model">>, DefaultTimeout,
                                 ec, <<>>)]
      /\ hnd = <<NewHandle(DefaultTimeout)>>
      /\ last = NoCall
      /\ pc = "idle"
      /\ cur = NoDrain
      /\ mgr = NoManager

NextIO ==
    \/ \E d \in Drivers, m \in Methods, check \in BOOLEAN : Primitive(d, m, check)
    \/ \E d \in Drivers : Errors(d)
    \/ ErrorsStep
    \/ \E d \in Drivers : Close(d)
    \/ \E d \in Drivers : Del(d)

SpecIO == InitIO /\ [][NextIO]_vars

(***************************************************************************)
(* Claims about the pass-throughs, the error queue and close (SpecIO)      *)
(***************************************************************************)
\* the calls made on a transport handle by the last call, and by a drain
\* still running
CallsMade == {last.io[i] : i \in 1..Len(last.io)} \cup {cur.io[i] : i \in 1..Len(cur.io)}

\* C3: once close() has been called on a driver whose transport was present,
\* no later query, write, ascii or binary variant, errors() or second close()
\* (the one of __del__ included) invokes a method on the released handle.
C3_NoCallOnReleasedHandle == \A c \in CallsMade : ~c.closed

\* C4: with a non-empty error command, when the device answers k >= 0
\* entries with a non-zero code and then an entry with code zero, errors()
\* returns exactly the k (code, message) pairs, in the order received,
\* without the zero entry.
C4_ErrorsReturnsEntries ==
    (last.op = "errors" /\ pc = "idle" /\ ~ErrorsDisabled(last.tgt[1])
     /\ last.ret.out = "ok")
    => last.ret.val = ErrList(cur.sent)

\* C5: with the error command empty, errors() returns the empty list and
\* makes no transport call, with the transport connected or absent.
C5_DisabledErrorsNoIO ==
    (last.op = "errors" /\ drv[last.tgt[1]].error_command = "")
    => (last.ret = Ok(ErrList(<<>>)) /\ last.io = <<>> /\ pc = "idle")

\* errors() returned on a driver with a connected transport and the error
\* command disabled
C5_Witness ==
    /\ last.op = "errors"
    /\ ErrorsDisabled(last.tgt[1])
    /\ drv[last.tgt[1]].ins # NoIns
    /\ ~hnd[drv[last.tgt[1]].ins].closed


\* the outcome of the primitive's own transport call: kept by the drain of
\* the error queue when one ran after it, else the call's result
OwnOutcome == IF cur.op = last.op THEN cur.ret ELSE last.ret

\* the calls of the last call that carry its message
MessageCalls == {i \in 1..Len(last.io) : last.io[i].cmd.text = "MSG"}

AtsModels == {"ATS9360", "ATS9850", "ATS9870"}

\* the address of board b of system s of a digitizer: model::SYSTEM<s>::<b>,
\* with or without the ::INSTR suffix
AtsAddress(model, s, b, instr) ==
    <<model, ":", ":", "SYSTEM">> \o DigitsOf(s) \o <<":", ":">> \o DigitsOf(b)
        \o (IF instr THEN <<":", ":", "INSTR">> ELSE <<>>)

AllDigits(x) == x # <<>> /\ \A i \in 1..Len(x) : IsDigit(x[i])

\* a plausible slip: the pattern without the optional suffix group
AtsMatchBare(addr) ==
    LET parts == Split(addr, <<":", ":">>)
    IN  IF /\ Len(parts) = 3
           /\ Len(parts[1]) = 1
           /\ parts[1][1] \in AtsModels
           /\ parts[2] # <<>>
           /\ Head(parts[2]) = "SYSTEM"
           /\ AllDigits(Tail(parts[2]))
           /\ AllDigits(parts[3])
        THEN <<parts[1], Tail(parts[2]), parts[3]>>
        ELSE <<>>

\* ats_addr.search(addr):
\* ^(ATS9360|ATS9850|ATS9870)::SYSTEM([0-9]+)::([0-9]+)(|::INSTR)$
\* the groups of the match, or <<>> when the address does not match
AtsMatch(addr) ==
    LET parts == Split(addr, <<":", ":">>)
    IN  IF /\ Len(parts) \in {3, 4}
           /\ Len(parts[1]) = 1
           /\ parts[1][1] \in AtsModels
           /\ parts[2] # <<>>
           /\ Head(parts[2]) = "SYSTEM"
           /\ AllDigits(Tail(parts[2]))
           /\ AllDigits(parts[3])
           /\ (Len(parts) = 4 => parts[4] = <<"INSTR">>)
        THEN <<parts[1], Tail(parts[2]), parts[3]>>
        ELSE <<>>

\* a resource descriptor, the dict the resolver returns ("" and 0 stand for
\* keys the dict does not have)
Descriptor(type, ins, company, model, systemID, boardID, version, addr) ==
    [type |-> type, ins |-> ins, company |-> company, model |-> model,
     systemID |-> systemID, boardID |-> boardID, version |-> version, addr |-> addr]

\* _parse_ats_resource_name
ParseAtsResourceName(m, addr) ==
    Descriptor("ATS", NoIns, <<"AlazarTech">>, m[1], DigitsVal(m[2], 0),
               DigitsVal(m[3], 0), <<>>, addr)

\* _parse_resource_name
ParseResourceName(addr) ==
    IF AtsMatch(addr) # <<>>
    THEN ParseAtsResourceName(AtsMatch(addr), addr)
    ELSE Descriptor("Visa", NoIns, <<>>, <<>>, 0, 0, <<>>, addr)

\* str.strip() without arguments
Blank == {" ", "\n", "\t", "\r"}

\* _open_visa_resource after the resource is open: the identification query
\* answered by reply, split on commas, fields 0, 1 and 3 stripped
Identify(h, addr, reply) ==
    LET IDN == Split(reply.val.s, <<",">>)
    IN  IF reply.out # "ok" THEN [out |-> reply.out, info |-> ParseResourceName(addr)]
        ELSE IF Len(IDN) < 4    \* IDN[1] or IDN[3] is out of range
        THEN [out |-> "IndexError", info |-> ParseResourceName(addr)]
        ELSE [out |-> "ok",
              info |-> Descriptor("", h, Strip(IDN[1], Blank), Strip(IDN[2], Blank),
                                  0, 0, Strip(IDN[4], Blank), addr)]


(***************************************************************************)
(* The instruments (the registry lookup db.query.getInstrumentByName, or   *)
(* the descriptor object the caller passes): name, address, driver module  *)
(***************************************************************************)
GenericAddress == <<"GPIB", "0", ":", ":", "7", ":", ":", "INSTR">>

\* a digitizer-like address of a model the pattern does not list
NearAddress == <<"ATS9999", ":", ":", "SYSTEM", "1", ":", ":", "2">>

\* what the address of a digitizer board was built from (0 for other names)
BoardOf(name) ==
    CASE name = "dig1" -> [model |-> "ATS9360", s |-> 1, b |-> 2, instr |-> FALSE]
      [] name = "dig2" -> [model |-> "ATS9870", s |-> 12, b |-> 0, instr |-> TRUE]
      [] OTHER -> [model |-> "", s |-> 0, b |-> 0, instr |-> FALSE]

IsBoard(name) == BoardOf(name).model # ""

Instrument(name) ==
    [name |-> name,
     address |-> IF IsBoard(name)
                 THEN AtsAddress(BoardOf(name).model, BoardOf(name).s, BoardOf(name).b,
                                 BoardOf(name).instr)
                 ELSE IF name = "near1" THEN NearAddress ELSE GenericAddress,
     driver |-> IF name = "awg1" THEN "missing" ELSE "drivers.generic"]

\* _load_driver: importlib.import_module(driver_name) finds the module or not
Loads(driver_name) == driver_name # "missing"

\* the fields of the identification replies a device may give, joined by ","
IdnFields == {<<<<"A">>, <<" ", "M">>, <<"s">>, <<"V", "\n">>>>,
              <<<<"A">>, <<"M">>, <<"s">>, <<"V">>, <<"x">>>>,
              <<<<"A">>, <<"M">>, <<"s", "\n">>>>,
              <<<<"A", "\n">>>>}

RECURSIVE Join(_, _)
Join(fields, sep) ==
    IF Len(fields) = 1 THEN fields[1]
    ELSE fields[1] \o sep \o Join(Tail(fields), sep)

\* the handle rm.open_resource returns, with the transport's own timeout
OpenedHandle == [closed |-> FALSE, timeout |-> 2000]

DriverRef(d) == [t |-> "driver", n |-> d, s |-> <<>>, a |-> <<>>]

\* the smallest driver id not yet used: a new object
NewDriverId == CHOOSE d \in Drivers : ~drv[d].built /\ \A x \in Drivers : x < d => drv[x].built

Bump(name, opens, idns, builds, hooks) ==
    [mgr.did EXCEPT ![name] = [opens |-> @.opens + opens, idns |-> @.idns + idns,
                               builds |-> @.builds + builds, hooks |-> @.hooks + hooks]]

\* what an open() did, kept with the call: whether it resolved the address,
\* the descriptor, whether rm.open_resource returned a handle, and the number
\* of fields of the identification reply it read (0 when it read none)
OpenArg(resolved, info, opened, nfields) ==
    [resolved |-> resolved, info |-> info, opened |-> opened, nfields |-> nfields]

\* a plausible slip: the cache is never consulted
CachedNever(name) == FALSE

\* instrument.name in self.__instr.keys()
Cached(name) == mgr.instr[name] # 0

(***************************************************************************)
(* DriverManager.open and _open_resource                                   *)
(***************************************************************************)
\* open() of a name the cache holds: the cached driver, nothing else
OpenCached(name) ==
    /\ last' = Done("open", <<0, name>>,
                    OpenArg(FALSE, ParseResourceName(<<>>), FALSE, 0),
                    Ok(DriverRef(mgr.instr[name])), <<>>, NotSet)
    /\ mgr' = [mgr EXCEPT !.calls = @ + 1]
    /\ UNCHANGED <<Q, drv, hnd, pc, cur>>

\* _open_resource fails: nothing is cached
OpenFails(name, exc, info, nfields, io, opens, idns) ==
    /\ last' = Done("open", <<0, name>>, OpenArg(TRUE, info, idns + nfields > 0, nfields),
                    Raise(exc), io, NotSet)
    /\ mgr' = [mgr EXCEPT !.calls = @ + 1, !.did = Bump(name, opens, idns, 0, 0)]
    /\ UNCHANGED <<Q, drv, pc, cur>>

\* Driver(**info), performOpen(), self.__instr[name] = ins
OpenBuilds(name, info, nfields, timeout, io, opens, idns) ==
    LET d == NewDriverId
    IN  /\ drv' = [drv EXCEPT ![d] = NewDriver(Q, d, info.ins, info.addr, info.model,
                                               timeout, ErrorCommand, <<>>)]
        /\ hnd' = IF info.ins = NoIns THEN hnd
                  ELSE Append(hnd, NewHandle(timeout))
        /\ last' = Done("open", <<0, name>>, OpenArg(TRUE, info, info.ins # NoIns, nfields),
                        Ok(DriverRef(d)), io, NotSet)
        /\ mgr' = [mgr EXCEPT !.calls = @ + 1,
                              !.instr[name] = d,
                              !.first[name] = IF @ = 0 THEN d ELSE @,
                              !.did = Bump(name, opens, idns, 1, 1)]
        /\ UNCHANGED <<Q, pc, cur>>

\* the rest of _open_resource once the descriptor is there
LoadAndBuild(name, info, nfields, timeout, io, opens, idns) ==
    IF Loads(Instrument(name).driver)
    THEN OpenBuilds(name, info, nfields, timeout, io, opens, idns)
    ELSE /\ OpenFails(name, "ImportError", info, nfields, io, opens, idns)
         /\ hnd' = IF info.ins = NoIns THEN hnd ELSE Append(hnd, OpenedHandle)

\* manager.open(name, timeout = ...): kw reaches the driver's constructor
Open(name, timeout) ==
    /\ pc = "idle"
    /\ ~mgr.torn
    /\ mgr.calls < MaxOpens
    /\ LET addr == Instrument(name).address
           info == ParseResourceName(addr)
           h == Len(hnd) + 1
           opened == <<Call("open_resource", Cmd("", None), FALSE)>>
           asked == Append(opened, Call("query", Cmd("*IDN?", None), FALSE))
       IN  IF Cached(name) THEN OpenCached(name)
           ELSE IF info.type # "Visa"
           THEN LoadAndBuild(name, info, 0, timeout, <<>>, 0, 0)
           ELSE \/ /\ OpenFails(name, "VisaIOError", info, 0, opened, 1, 0)
                   /\ hnd' = hnd
                \/ /\ OpenFails(name, "VisaIOError", info, 0, asked, 1, 1)
                   /\ hnd' = Append(hnd, OpenedHandle)
                \/ \E fields \in IdnFields :
                     LET r == Identify(h, addr, Ok(PyStr(Join(fields, <<",">>))))
                     IN  IF r.out # "ok"
                         THEN /\ OpenFails(name, r.out, r.info, Len(fields), asked, 1, 1)
                              /\ hnd' = Append(hnd, OpenedHandle)
                         ELSE LoadAndBuild(name, r.info, Len(fields), timeout, asked,
                                           1, 1)

\* DriverManager.get and __getitem__: self.__instr.get(key, None)
ManagerGet(name) ==
    /\ pc = "idle"
    /\ ~mgr.torn
    /\ last' = Done("get", <<0, name>>, None,
                    Ok(IF mgr.instr[name] # 0 THEN DriverRef(mgr.instr[name]) ELSE None),
                    <<>>, NotSet)
    /\ UNCHANGED <<Q, drv, hnd, pc, cur, mgr>>

\* a plausible slip: the teardown loop ends after the first driver
CachedDriversFirst ==
    LET ds == {mgr.instr[n] : n \in {x \in InstrNames : mgr.instr[x] # 0}}
    IN  {d \in ds : \A e \in ds : d <= e}

\* self.__instr.values()
CachedDrivers == {mgr.instr[n] : n \in {x \in InstrNames : mgr.instr[x] # 0}}

\* the transport calls of "for ins in ...: ins.close()" over the drivers ds,
\* from driver d on, in the order the drivers were cached
RECURSIVE CloseAll(_, _)
CloseAll(ds, d) ==
    IF d > MaxOpens THEN <<>>
    ELSE (IF d \in ds THEN CloseCalls(drv[d].ins) ELSE <<>>) \o CloseAll(ds, d + 1)

\* DriverManager.__del__: close() on every cached driver; the manager is
\* gone afterwards
ManagerDel ==
    /\ pc = "idle"
    /\ ~mgr.torn
    /\ hnd' = [i \in DOMAIN hnd |->
                 IF \E d \in CachedDrivers : drv[d].ins = i
                 THEN [hnd[i] EXCEPT !.closed = TRUE] ELSE hnd[i]]
    /\ last' = Done("mgr.__del__", <<0, "">>, None, Ok(None),
                    CloseAll(CachedDrivers, 1), NotSet)
    /\ mgr' = [mgr EXCEPT !.torn = TRUE]
    /\ UNCHANGED <<Q, drv, pc, cur>>

(***************************************************************************)
(* SpecMgr: a DriverManager and the opens made on it                       *)
(***************************************************************************)
KwTimeouts == {DefaultTimeout, 5}

InitMgr ==
    /\ Q = EmptyDict
    /\ drv = [d \in Drivers |-> NoDrv]
    /\ hnd = <<>>
    /\ last = NoCall
    /\ pc = "idle"
    /\ cur = NoDrain
    /\ mgr = NoManager

NextMgr ==
    \/ \E name \in InstrNames, timeout \in KwTimeouts : Open(name, timeout)
    \/ \E name \in InstrNames : ManagerGet(name)
    \/ ManagerDel

SpecMgr == InitMgr /\ [][NextMgr]_vars


(***************************************************************************)
(* Claims about the resolver and the manager (SpecMgr)                     *)
(***************************************************************************)
CountOf(io, m) == Cardinality({i \in 1..Len(io) : io[i].m = m})

OpenOf(name) == last.op = "open" /\ last.tgt = <<0, name>>

C2_CacheState ==
    \A name \in InstrNames :
      /\ (OpenOf(name) /\ last.ret.out = "ok")
            => (last.ret.val = DriverRef(mgr.first[name])
                /\ mgr.instr[name] = mgr.first[name])
      /\ Cached(name)
            => (/\ mgr.did[name].builds = 1
                /\ mgr.did[name].hooks = 1
                /\ IF IsBoard(name)
                   THEN mgr.did[name].opens = 0 /\ mgr.did[name].idns = 0
                   ELSE mgr.did[name].opens >= 1 /\ mgr.did[name].idns >= 1)
      /\ ~Cached(name) => (mgr.did[name].builds = 0 /\ mgr.did[name].hooks = 0)

\* the step part of C2 as amended: an open of a name that is cached runs no
\* part of the resource-open path: no call, no resource opened, no driver
\* constructed, the cache unchanged.
C2_CachedStep ==
    \A name \in InstrNames :
      (Cached(name) /\ mgr'.calls = mgr.calls + 1 /\ last'.tgt = <<0, name>>)
        => (/\ last'.io = <<>>
            /\ last'.ret = Ok(DriverRef(mgr.instr[name]))
            /\ mgr'.did = mgr.did
            /\ mgr'.instr = mgr.instr
            /\ drv' = drv
            /\ hnd' = hnd)

C9_ShortIdnIsProtocolError ==
    (last.op = "open" /\ last.arg.nfields \in 1..3) => last.ret.out = "ProtocolError"

\* what resolving the address of the last open found and did
Resolved == last.op = "open" /\ last.arg.resolved

BoardDescriptor(name) ==
    /\ last.arg.info.type = "ATS"
    /\ last.arg.info.model = <<BoardOf(name).model>>
    /\ last.arg.info.systemID = BoardOf(name).s
    /\ last.arg.info.boardID = BoardOf(name).b
    /\ last.arg.info.ins = NoIns
    /\ last.io = <<>>

\* C10 as stated: an address model::SYSTEM<s>::<b> resolves to a descriptor
\* with that model, systemID s and boardID b, with no resource opened and no
\* query; any other address opens the resource exactly once and issues
\* exactly one identification query.
C10_ResolveAsStated ==
    \A name \in InstrNames :
      (Resolved /\ OpenOf(name))
        => IF IsBoard(name) THEN BoardDescriptor(name)
           ELSE /\ CountOf(last.io, "open_resource") = 1
                /\ CountOf(last.io, "query") = 1

\* C10, amended: as stated for a digitizer address; any other address calls
\* rm.open_resource exactly once and, when that call returns a handle,
\* issues exactly one identification query on it (none when it fails).
C10_Resolve ==
    \A name \in InstrNames :
      (Resolved /\ OpenOf(name))
        => IF IsBoard(name) THEN BoardDescriptor(name)
           ELSE /\ CountOf(last.io, "open_resource") = 1
                /\ CountOf(last.io, "query") = (IF last.arg.opened THEN 1 ELSE 0)
                /\ last.io[1].m = "open_resource"

\* a digitizer address with a two-digit system and the ::INSTR suffix was
\* resolved, after a generic-bus instrument had been opened with one query
C10_Witness ==
    /\ Resolved
    /\ OpenOf("dig2")
    /\ last.ret.out = "ok"
    /\ last.arg.info.systemID = 12
    /\ mgr.did["scope1"] = [opens |-> 1, idns |-> 1, builds |-> 1, hooks |-> 1]


\* the names whose cached driver holds a transport handle
CachedWithHandle ==
    {n \in InstrNames : mgr.instr[n] # 0 /\ drv[mgr.instr[n]].ins # NoIns}

MaxOpts == 2

OptTokens == {ON, OFF, <<"1">>, <<"0">>}

OptPairs == {<<l, c>> : l \in OptTokens, c \in OptTokens}

OptLists == UNION {[1..n -> OptPairs] : n \in 0..MaxOpts}

\* q._opts[key]
OptsLookup(qid, key) ==
    /\ pc = "idle"
    /\ Q[qid].cls = "QOption"
    /\ last' = Done("_opts", qid, PyStr(key),
                    IF key \in DOMAIN Q[qid].opts THEN Ok(PyStr(Q[qid].opts[key]))
                    ELSE Raise("KeyError"),
                    <<>>, NotSet)
    /\ UNCHANGED <<Q, drv, hnd, pc, cur, mgr>>

InitOpt ==
    \E options \in OptLists :
      /\ Q = DictSet(EmptyDict, TemplateId("A"),
                     NewQuantity("QOption", "A", None, NoCmd, NoCmd, options))
      /\ drv = [d \in Drivers |-> NoDrv]
      /\ hnd = <<>>
      /\ last = NoCall
      /\ pc = "idle"
      /\ cur = NoDrain
      /\ mgr = NoManager

NextOpt == \E qid \in DOMAIN Q, key \in OptTokens : OptsLookup(qid, key)

SpecOpt == InitOpt /\ [][NextOpt]_vars

\* the lookup that has just been made gave, for every registered pair whose
\* label was looked up, its code, and for every registered pair whose code
\* was looked up, its label
LookupAgrees ==
    LET options == Q[last.tgt].options
    IN  \A i \in 1..Len(options) :
          /\ last.arg = PyStr(options[i][1]) => last.ret = Ok(PyStr(options[i][2]))
          /\ last.arg = PyStr(options[i][2]) => last.ret = Ok(PyStr(options[i][1]))

\* no label is registered twice, no code is registered twice, and no label
\* is the code of another pair
Unambiguous(options) ==
    \A i, j \in 1..Len(options) :
      i # j => /\ options[i][1] # options[j][1]
               /\ options[i][2] # options[j][2]
               /\ options[i][1] # options[j][2]

ShareClasses == {"QReal", "QString", "QOption"}

ShareValues == {PyInt(2), PyStr(ON)}

InitShare ==
    \E cls \in ShareClasses, connected \in BOOLEAN :
      \E tp \in {<<NoCmd, NoCmd>>, <<GetTemplate(FALSE), SetTemplate(cls, FALSE)>>} :
        LET tq == NewQuantity(cls, "A", None, tp[1], tp[2], OnOff)
            heap == DictSet(EmptyDict, TemplateId("A"), tq)
        IN  /\ Q = AddQuants(AddQuants(heap, 1, <<TemplateId("A")>>), 2,
                             <<TemplateId("A")>>)
            /\ drv = [d \in Drivers |->
                        IF d > 2 THEN NoDrv
                        ELSE NewDriver(heap, d, IF connected THEN d ELSE NoIns,
                                       <<"addr">>, <<"model">>, DefaultTimeout,
                                       ErrorCommand, <<TemplateId("A")>>)]
            /\ hnd = <<NewHandle(DefaultTimeout), NewHandle(DefaultTimeout)>>
            /\ last = NoCall
            /\ pc = "idle"
            /\ cur = NoDrain
            /\ mgr = NoManager

NextShare ==
    \/ \E d \in Drivers, name \in Names : DriverGetValue(d, name, {})
    \/ \E d \in Drivers, name \in Names, v \in ShareValues : DriverSetValue(d, name, v, {})

SpecShare == InitShare /\ [][NextShare]_vars

\* the quantity objects a driver's mapping refers to
QuantitiesOf(d) == {drv[d].quantities[n] : n \in DOMAIN drv[d].quantities}

\* every driver's quantities are objects of its own: none is the object of
\* another driver or a class template, each refers back to its driver, and
\* the templates refer to no driver
C11_OwnObjects ==
    /\ \A d \in Drivers : drv[d].built =>
         \A qid \in QuantitiesOf(d) :
           /\ Q[qid].driver = d
           /\ \A n \in Names : qid # TemplateId(n)
           /\ \A e \in Drivers \ {d} : drv[e].built => qid \notin QuantitiesOf(e)
    /\ \A n \in Names : TemplateId(n) \in DOMAIN Q => Q[TemplateId(n)].driver = NoDriver

\* a call by name on a driver changes no quantity object but the one it names
C11_Frame ==
    \A d \in Drivers, n \in Names :
      (drv[d].built /\ last'.tgt = CopyId(d, n))
        => \A qid \in DOMAIN Q : qid \notin QuantitiesOf(d) => Q'[qid] = Q[qid]

\* C11: two drivers of one driver class share no quantity object: a setValue
\* or getValue on one driver never changes a quantity of the other driver or
\* the class template, and the template's driver reference stays unset.
C11_NoSharedQuantity == []C11_OwnObjects /\ [][C11_Frame]_vars

\* both drivers' copies of "A" were set, to different values, and the
\* template still holds its initial value
C11_Witness ==
    /\ last.op = "d.setValue"
    /\ drv[1].built /\ drv[2].built
    /\ Q[CopyId(1, "A")].value = PyInt(2)
    /\ Q[CopyId(2, "A")].value = PyStr(ON)
    /\ Q[TemplateId("A")].value = None


(***************************************************************************)
(* SpecInit: a driver with a QReal "A" and a QOption "B", both with a set  *)
(* template, and init(cfg) called on it.  cfg is the mapping in key order: *)
(* an entry is [key, dict, value, kw], dict telling whether the entry's    *)
(* value is a keyword-argument set {"value": value, ...kw} or the plain    *)
(* value.                                                                   *)
(***************************************************************************)
MaxCfg == 2

CfgKeys == {"A", "B", "C"}

\* the values given for a key: a number for "A" and the unknown "C", a
\* registered and an unregistered label for the option "B"
CfgValues(k) == IF k = "B" THEN {PyStr(ON), PyStr(<<"X">>)} ELSE {PyInt(2)}

CfgEntries ==
    UNION {{[key |-> k, dict |-> b, value |-> v, kw |-> IF b THEN {"extra"} ELSE {}] :
              b \in BOOLEAN, v \in CfgValues(k)} : k \in CfgKeys}

\* the mappings: no key twice
Cfgs ==
    {c \in UNION {[1..n -> CfgEntries] : n \in 0..MaxCfg} :
       \A i, j \in 1..Len(c) : i # j => c[i].key # c[j].key}

\* a plausible slip: the loop ends at the first key that names no quantity
RECURSIVE InitLoopStrict(_, _, _, _, _)
InitLoopStrict(heap, d, cfg, replies, i) ==
    IF i > Len(cfg) \/ ~Has(d, cfg[i].key)
    THEN [heap |-> heap, ret |-> Ok(SelfRef), io |-> <<>>]
    ELSE LET qid == drv[d].quantities[cfg[i].key]
             r == SetValue(heap[qid], drv[d].ins, IsClosed(drv[d].ins), cfg[i].value,
                           cfg[i].kw, replies[i])
             heap1 == [heap EXCEPT ![qid] = r.q]
         IN  IF r.ret.out # "ok" THEN [heap |-> heap1, ret |-> r.ret, io |-> r.io]
             ELSE LET rest == InitLoopStrict(heap1, d, cfg, replies, i + 1)
                  IN  [rest EXCEPT !.io = r.io \o @]

\* for key in cfg.keys(): self.setValue(key, cfg[key]) or
\* self.setValue(key, **cfg[key]), from entry i on; an exception ends it
RECURSIVE InitLoop(_, _, _, _, _)
InitLoop(heap, d, cfg, replies, i) ==
    IF i > Len(cfg) THEN [heap |-> heap, ret |-> Ok(SelfRef), io |-> <<>>]
    ELSE IF ~Has(d, cfg[i].key) THEN InitLoop(heap, d, cfg, replies, i + 1)
    ELSE LET qid == drv[d].quantities[cfg[i].key]
             r == SetValue(heap[qid], drv[d].ins, IsClosed(drv[d].ins), cfg[i].value,
                           cfg[i].kw, replies[i])
             heap1 == [heap EXCEPT ![qid] = r.q]
         IN  IF r.ret.out # "ok" THEN [heap |-> heap1, ret |-> r.ret, io |-> r.io]
             ELSE LET rest == InitLoop(heap1, d, cfg, replies, i + 1)
                  IN  [rest EXCEPT !.io = r.io \o @]

\* d.init(cfg)
DriverInit(d, cfg) ==
    /\ pc = "idle"
    /\ drv[d].built
    /\ \E replies \in [1..Len(cfg) -> RepliesFor("write", IsClosed(drv[d].ins))] :
         LET r == InitLoop(Q, d, cfg, replies, 1)
         IN  /\ Q' = r.heap
             /\ last' = Done("init", DriverId(d), cfg, r.ret, r.io, NotSet)
    /\ UNCHANGED <<drv, hnd, pc, cur, mgr>>

InitInit ==
    \E connected \in BOOLEAN :
      LET heap == DictSet(DictSet(EmptyDict, TemplateId("A"),
                                  NewQuantity("QReal", "A", None, NoCmd,
                                              SetTemplate("QReal", FALSE), <<>>)),
                          TemplateId("B"),
                          NewQuantity("QOption", "B", None, NoCmd,
                                      SetTemplate("QOption", FALSE), OnOff))
          quants == <<TemplateId("A"), TemplateId("B")>>
          copied == AddQuants(heap, 1, quants)
      IN  /\ Q = [id \in {CopyId(1, "A"), CopyId(1, "B")} |-> copied[id]]
          /\ drv = [d \in Drivers |->
                      IF d # 1 THEN NoDrv
                      ELSE NewDriver(heap, d, IF connected THEN 1 ELSE NoIns, <<"addr">>,
                                     <<"model">>, DefaultTimeout, ErrorCommand, quants)]
          /\ hnd = <<NewHandle(DefaultTimeout)>>
          /\ last = NoCall
          /\ pc = "idle"
          /\ cur = NoDrain
          /\ mgr = NoManager

NextInit == \E d \in Drivers, cfg \in Cfgs : DriverInit(d, cfg)

SpecInit == InitInit /\ [][NextInit]_vars

\* the write an entry is to cause: none when its key names no quantity, the
\* driver has no transport, or its value is no label of the option quantity
EntryWrite(d, e) ==
    IF ~Has(d, e.key) \/ drv[d].ins = NoIns THEN <<>>
    ELSE LET q == Q[drv[d].quantities[e.key]]
         IN  IF q.cls # "QOption"
             THEN <<Call("write", Cmd(q.set_cmd.text, e.value), FALSE)>>
             ELSE IF e.value = PyStr(ON)
             THEN <<Call("write", Cmd(q.set_cmd.text, PyStr(<<"1">>)), FALSE)>>
             ELSE <<>>

\* the writes of the entries 1..n, in key order
RECURSIVE WritesInOrder(_, _, _)
WritesInOrder(d, cfg, n) ==
    IF n = 0 THEN <<>> ELSE WritesInOrder(d, cfg, n - 1) \o EntryWrite(d, cfg[n])

IsPrefix(a, b) == Len(a) <= Len(b) /\ \A i \in 1..Len(a) : a[i] = b[i]

ErrEntries == {<<code, msg>> : code \in ErrCodes, msg \in ErrMsgs}

ErrQueues == UNION {[1..n -> ErrEntries] : n \in 0..MaxErrs}

\* a non-zero entry an endless device keeps answering
EndlessEntry == <<12, <<"a">>>>

\* the device's next reply
NextEntry(h) ==
    IF h.queue # <<>> THEN Head(h.queue)
    ELSE IF h.endless THEN EndlessEntry
    ELSE <<0, <<"a">>>>

DrainQuery(d) ==
    Append(cur.io, Call("query", Cmd(drv[d].error_command, None), FALSE))

\* the entries a device can deliver
Deliverable == ErrEntries \cup {EndlessEntry, <<0, <<"a">>>>}

\* each deliverable entry's reply as errors() parses it
ParsedReply ==
    [entry \in Deliverable |->
       ParseErr(ErrReplyText(entry[1], entry[2], FALSE, TRUE))]

\* one pass of "while True" in errors() that the transport answers
DrainRead ==
    /\ pc = "errors"
    /\ Len(cur.io) < MaxErrs + 1
    /\ LET ins == drv[cur.d].ins
           entry == NextEntry(hnd[ins])
       IN  /\ DrainParsed(ParsedReply[entry], entry, DrainQuery(cur.d))
           /\ hnd' = [hnd EXCEPT ![ins].queue = IF @ = <<>> THEN @ ELSE Tail(@)]
    /\ UNCHANGED <<Q, drv, mgr>>

\* one pass in which self.ins.query raises
DrainFails ==
    /\ pc = "errors"
    /\ Len(cur.io) < MaxErrs + 1
    /\ DrainRaises("VisaIOError", DrainQuery(cur.d))
    /\ UNCHANGED <<Q, drv, hnd, mgr>>

InitDrain ==
    \E queue \in ErrQueues, endless \in BOOLEAN :
      /\ Q = EmptyDict
      /\ drv = [d \in Drivers |->
                  IF d # 1 THEN NoDrv
                  ELSE NewDriver(EmptyDict, d, 1, <<"addr">>, <<"model">>, DefaultTimeout,
                                 ErrorCommand, <<>>)]
      /\ hnd = <<[closed |-> FALSE, timeout |-> DefaultTimeout * 1000,
                  queue |-> queue, endless |-> endless]>>
      /\ last = NoCall
      /\ pc = "idle"
      /\ cur = NoDrain
      /\ mgr = NoManager

NextDrain ==
    \/ \E d \in Drivers : Errors(d)
    \/ DrainRead
    \/ DrainFails

SpecDrain == InitDrain /\ [][NextDrain]_vars /\ WF_vars(DrainRead)

\* errors() has ended, by returning or by raising
DrainEnded == last.op = "errors" /\ pc = "idle"

\* the device will deliver a zero entry
DeliversZero == ~hnd[1].endless

\* the position of the first zero entry in the replies to the drain that
\* has ended: after the non-zero entries it read and those still pending
FirstZero == Len(cur.sent) + Len(hnd[1].queue) + 1

DrainEndedRight ==
    DrainEnded =>
      IF last.ret.out = "ok"
      THEN /\ DeliversZero
           /\ hnd[1].queue = <<>>
           /\ Len(last.io) = FirstZero
           /\ Len(last.ret.val.a) = Len(cur.sent)
      ELSE /\ last.ret = Raise("VisaIOError")
           /\ Len(last.io) = Len(cur.sent) + 1
           /\ DeliversZero => Len(last.io) <= FirstZero

Timeouts == {0, 1, DefaultTimeout, 5}

\* a plausible slip: the seconds are stored in the handle as they are
SetTimeoutSeconds(d, t) ==
    /\ pc = "idle"
    /\ drv[d].built
    /\ drv' = [drv EXCEPT ![d].timeout = t]
    /\ hnd' = IF drv[d].ins = NoIns THEN hnd
              ELSE [hnd EXCEPT ![drv[d].ins].timeout = t]
    /\ last' = Done("set_timeout", DriverId(d), PyInt(t), Ok(DriverRef(d)), <<>>, NotSet)
    /\ UNCHANGED <<Q, pc, cur, mgr>>

\* self.timeout = t; if self.ins is not None: self.ins.timeout = t * 1000;
\* return self
SetTimeout(d, t) ==
    /\ pc = "idle"
    /\ drv[d].built
    /\ drv' = [drv EXCEPT ![d].timeout = t]
    /\ hnd' = IF drv[d].ins = NoIns THEN hnd
              ELSE [hnd EXCEPT ![drv[d].ins].timeout = t * 1000]
    /\ last' = Done("set_timeout", DriverId(d), PyInt(t), Ok(DriverRef(d)), <<>>, NotSet)
    /\ UNCHANGED <<Q, pc, cur, mgr>>

\* the handle a driver is constructed with, after the constructor
HandleOf(ins, timeout) ==
    IF ins = NoIns THEN OpenedHandle ELSE NewHandle(timeout)

InitTimeout ==
    \E ins \in [1..2 -> BOOLEAN], timeout \in [1..2 -> Timeouts] :
      /\ Q = EmptyDict
      /\ drv = [d \in Drivers |->
                  IF d > 2 THEN NoDrv
                  ELSE NewDriver(EmptyDict, d, IF ins[d] THEN d ELSE NoIns,
                                 <<"addr">>, <<"model">>, timeout[d], ErrorCommand,
                                 <<>>)]
      /\ hnd = [d \in 1..2 |->
                  HandleOf(IF ins[d] THEN d ELSE NoIns, timeout[d])]
      /\ last = NoCall
      /\ pc = "idle"
      /\ cur = NoDrain
      /\ mgr = NoManager

NextTimeout ==
    \E d \in Drivers, t \in Timeouts : SetTimeout(d, t)

SpecTimeout == InitTimeout /\ [][NextTimeout]_vars

\* every constructed driver that has a transport handle finds in it 1000
\* times its own timeout
MillisecondsAgree ==
    \A d \in Drivers :
      (drv[d].built /\ drv[d].ins # NoIns)
        => hnd[drv[d].ins].timeout = 1000 * drv[d].timeout

\* a step taken on a driver without a transport handle changes that
\* driver's timeout and nothing else of the drivers, handles and quantities
AbsentChangesOnlyTimeout ==
    \A d \in Drivers :
      (last'.op = "set_timeout" /\ last'.tgt = <<d, "">> /\ drv[d].ins = NoIns)
        => /\ hnd' = hnd
           /\ Q' = Q
           /\ drv' = [drv EXCEPT ![d].timeout = last'.arg.n]

\* C20: in every state reached by constructing drivers and calling
\* set_timeout(t) any number of times, a driver with a transport handle
\* finds the handle's timeout equal to 1000 times its own timeout, and
\* set_timeout on a driver without a handle changes only that driver's
\* timeout.
C20_TimeoutInMilliseconds ==
    []MillisecondsAgree /\ [][AbsentChangesOnlyTimeout]_vars

\* set_timeout(5) has returned on the connected driver 1 while driver 2,
\* without a handle, holds a timeout of 1 second
C20_Witness ==
    /\ last.op = "set_timeout"
    /\ last.tgt = <<1, "">>
    /\ last.arg = PyInt(5)
    /\ last.ret = Ok(DriverRef(1))
    /\ drv[1].ins = 1
    /\ drv[1].timeout = 5
    /\ hnd[1].timeout = 5000
    /\ drv[2].ins = NoIns
    /\ drv[2].timeout = 1
    /\ hnd[2] = OpenedHandle

=============================================================================
